---- MODULE Spec2Model ----
(***************************************************************************)
(* Model of mysql/connector/conversion.py (MySQL Connector/Python, Python  *)
(* 2): the HexLiteral class, the codec configuration of                    *)
(* MySQLConverterBase and the encode / escape / quote / decode methods of  *)
(* MySQLConverter.                                                         *)
(*                                                                         *)
(* A Python 2 str is a byte string: it is modelled as a sequence of byte   *)
(* values 0..255.  A unicode object is a sequence of code points.  Every   *)
(* Python value is a record whose field t is the lower-cased class name,   *)
(* the key to_mysql dispatches on.  A raised exception is the record       *)
(* [t |-> "raise", exc |-> class name, col |-> column name in the message  *)
(* or NoCol].                                                              *)
(***************************************************************************)
EXTENDS Integers, Sequences, FiniteSets, TLC

VARIABLES charset, charset_id, use_unicode, cache, pc, op, src, arg, fld, res

vars == <<charset, charset_id, use_unicode, cache, pc, op, src, arg, fld, res>>

(***************************************************************************)
(* Bounds of the model.                                                    *)
(***************************************************************************)
\* longest text handed to escape
MaxLen == 2
\* durations range over days -MaxDays .. MaxDays
MaxDays == 2
\* longest list of separated parts in a raw DATE or TIME text
MaxParts == 3

(***************************************************************************)
(* Characters.  Ord gives the byte of a printable character so that texts  *)
(* can be written readably with Str.                                       *)
(***************************************************************************)
Printable ==
  {"0", "1", "2", "3", "4", "5", "6", "7", "8", "9", "a", "b", "c", "d",
   "e", "f", "x", "n", "r", "Z", "-", ":", ".", " ", ",", "+", "'", "N",
   "U", "L"}

Ord ==
  [c \in Printable |->
     CASE c = "0" -> 48 [] c = "1" -> 49 [] c = "2" -> 50 [] c = "3" -> 51
       [] c = "4" -> 52 [] c = "5" -> 53 [] c = "6" -> 54 [] c = "7" -> 55
       [] c = "8" -> 56 [] c = "9" -> 57 [] c = "a" -> 97 [] c = "b" -> 98
       [] c = "c" -> 99 [] c = "d" -> 100 [] c = "e" -> 101 [] c = "f" -> 102
       [] c = "x" -> 120 [] c = "n" -> 110 [] c = "r" -> 114 [] c = "Z" -> 90
       [] c = "-" -> 45 [] c = ":" -> 58 [] c = "." -> 46 [] c = " " -> 32
       [] c = "," -> 44 [] c = "+" -> 43 [] c = "'" -> 39 [] c = "N" -> 78
       [] c = "U" -> 85 [] c = "L" -> 76]

Str(cs) == [i \in 1..Len(cs) |-> Ord[cs[i]]]

\* the characters escape() rewrites, as the source spells them
BACKSLASH == 92
NEWLINE == 10
CARRIAGE_RETURN == 13
SINGLE_QUOTE == 39
DOUBLE_QUOTE == 34
CTRL_Z == 26

NoCol == ""

Raise(exc) == [t |-> "raise", exc |-> exc, col |-> NoCol]

IsRaise(v) == v.t = "raise"

None == [t |-> "nonetype"]

PyStr(s) == [t |-> "str", s |-> s]

PyInt(n) == [t |-> "int", n |-> n]

(***************************************************************************)
(* Python built-ins used by the converter.                                 *)
(***************************************************************************)
\* str.replace(old, new) for a one-character old
RECURSIVE Replace(_, _, _)
Replace(s, old, new) ==
  IF s = <<>> THEN <<>>
  ELSE (IF Head(s) = old THEN new ELSE <<Head(s)>>) \o Replace(Tail(s), old, new)

\* decimal digits of a natural number
RECURSIVE Digits(_)
Digits(n) == IF n < 10 THEN <<48 + n>> ELSE Digits(n \div 10) \o <<48 + (n % 10)>>

\* '%d' % n
FormatD(n) == IF n < 0 THEN <<45>> \o Digits(-n) ELSE Digits(n)

RECURSIVE Zeros(_)
Zeros(k) == IF k <= 0 THEN <<>> ELSE <<48>> \o Zeros(k - 1)

\* '%0wd' % n and '{:0wd}'.format(n): the sign counts in the width
FormatZD(n, w) ==
  IF n < 0 THEN <<45>> \o Zeros(w - 1 - Len(Digits(-n))) \o Digits(-n)
  ELSE Zeros(w - Len(Digits(n))) \o Digits(n)

(***************************************************************************)
(* MySQLConverter.escape and MySQLConverter.quote                          *)
(***************************************************************************)
\* escape with the backslash substitution made last instead of first
escape_backslash_last(value) ==
  IF value.t = "nonetype" THEN value
  ELSE IF value.t \in {"int", "bool", "hexliteral"} THEN value
  ELSE IF value.t \notin {"str", "unicode"} THEN Raise("AttributeError")
  ELSE
    LET r1 == Replace(value.s, NEWLINE, <<BACKSLASH, 110>>)
        r2 == Replace(r1, CARRIAGE_RETURN, <<BACKSLASH, 114>>)
        r3 == Replace(r2, SINGLE_QUOTE, <<BACKSLASH, SINGLE_QUOTE>>)
        r4 == Replace(r3, DOUBLE_QUOTE, <<BACKSLASH, DOUBLE_QUOTE>>)
        r5 == Replace(r4, CTRL_Z, <<BACKSLASH, CTRL_Z>>)
        r6 == Replace(r5, BACKSLASH, <<BACKSLASH, BACKSLASH>>)
    IN [value EXCEPT !.s = r6]

escape(value) ==
  IF value.t = "nonetype" THEN value
  ELSE IF value.t \in {"int", "bool", "hexliteral"} THEN value
  ELSE IF value.t \notin {"str", "unicode"} THEN Raise("AttributeError")
  ELSE
    LET r1 == Replace(value.s, BACKSLASH, <<BACKSLASH, BACKSLASH>>)
        r2 == Replace(r1, NEWLINE, <<BACKSLASH, 110>>)
        r3 == Replace(r2, CARRIAGE_RETURN, <<BACKSLASH, 114>>)
        r4 == Replace(r3, SINGLE_QUOTE, <<BACKSLASH, SINGLE_QUOTE>>)
        r5 == Replace(r4, DOUBLE_QUOTE, <<BACKSLASH, DOUBLE_QUOTE>>)
        r6 == Replace(r5, CTRL_Z, <<BACKSLASH, CTRL_Z>>)
    IN [value EXCEPT !.s = r6]

\* str(buf) for the values quote() renders bare
str(buf) ==
  CASE buf.t = "int" -> FormatD(buf.n)
    [] buf.t = "bool" -> IF buf.b THEN <<84, 114, 117, 101>> ELSE <<70, 97, 108, 115, 101>>
    [] buf.t = "hexliteral" -> Str(<<"0", "x">>) \o buf.s
    [] OTHER -> buf.s

quote(buf) ==
  IF buf.t \in {"int", "bool", "hexliteral"} THEN PyStr(str(buf))
  ELSE IF buf.t = "nonetype" THEN PyStr(Str(<<"N", "U", "L", "L">>))
  ELSE PyStr(<<SINGLE_QUOTE>> \o buf.s \o <<SINGLE_QUOTE>>)

(***************************************************************************)
(* The charset table (mysql.connector.constants.CharacterSet) and the      *)
(* Python codecs behind unicode.encode / unicode().                        *)
(***************************************************************************)
KnownCharsets == {"utf8", "latin1", "sjis"}

\* the charsets the connections of the model are opened with
UsedCharsets == {"utf8", "sjis"}

\* CharacterSet.get_charset_info(name)[0], or the unknown-charset failure
get_charset_info(name) ==
  CASE name = "utf8" -> PyInt(33)
    [] name = "latin1" -> PyInt(8)
    [] name = "sjis" -> PyInt(13)
    [] OTHER -> Raise("UnknownCharsetError")

slash_charsets == {1, 13, 28, 84, 87, 88}

\* code points of the model: ASCII, U+00E9 (233) and U+8868 (34920)
\* the bytes of one code point under a codec, <<>> when it has none
EncodeChar(cs, cp) ==
  IF cp < 128 THEN <<cp>>
  ELSE CASE cs = "utf8" -> IF cp = 233 THEN <<195, 169>> ELSE <<232, 161, 168>>
         [] cs = "latin1" -> IF cp = 233 THEN <<233>> ELSE <<>>
         [] cs = "sjis" -> IF cp = 34920 THEN <<149, BACKSLASH>> ELSE <<>>

RECURSIVE EncodeAll(_, _)
EncodeAll(cs, u) ==
  IF u = <<>> THEN <<>> ELSE EncodeChar(cs, Head(u)) \o EncodeAll(cs, Tail(u))

\* unicode.encode(charset): a str, or LookupError / UnicodeEncodeError
Encode(cs, u) ==
  IF cs \notin KnownCharsets THEN Raise("LookupError")
  ELSE IF \E i \in 1..Len(u) : EncodeChar(cs, u[i]) = <<>> THEN Raise("UnicodeEncodeError")
  ELSE PyStr(EncodeAll(cs, u))

(***************************************************************************)
(* class HexLiteral                                                        *)
(***************************************************************************)
HexDigit(d) == IF d < 10 THEN 48 + d ELSE 87 + d

\* "{0:x}".format(n)
RECURSIVE FormatX(_)
FormatX(n) == IF n < 16 THEN <<HexDigit(n)>> ELSE FormatX(n \div 16) \o <<HexDigit(n % 16)>>

RECURSIVE Hexed(_)
Hexed(bytes) == IF bytes = <<>> THEN <<>> ELSE FormatX(Head(bytes)) \o Hexed(Tail(bytes))

HexLiteral(str_, cs) ==
  LET encoded == Encode(cs, str_)
  IN IF IsRaise(encoded) THEN encoded
     ELSE [t |-> "hexliteral", s |-> Hexed(encoded.s), charset |-> cs, original |-> str_]

(***************************************************************************)
(* MySQLConverter.to_mysql and its handlers                                *)
(***************************************************************************)
_unicode_to_mysql(value) ==
  LET encoded == Encode(charset, value.s)
  IN IF IsRaise(encoded) THEN encoded
     ELSE IF charset_id \in slash_charsets
               /\ \E i \in 1..Len(encoded.s) : encoded.s[i] = BACKSLASH
          THEN HexLiteral(value.s, charset)
          ELSE encoded

_bool_to_mysql(value) == IF value.b THEN PyInt(1) ELSE PyInt(0)

_hms(value) ==
  FormatZD(value.hour, 2) \o <<58>> \o FormatZD(value.minute, 2) \o <<58>>
    \o FormatZD(value.second, 2)

_ymd(value) ==
  FormatD(value.year) \o <<45>> \o FormatZD(value.month, 2) \o <<45>>
    \o FormatZD(value.day, 2)

\* _datetime_to_mysql with the microseconds formatted %d instead of %06d
_datetime_to_mysql_unpadded(value) ==
  IF value.microsecond # 0
  THEN PyStr(_ymd(value) \o <<32>> \o _hms(value) \o <<46>> \o FormatD(value.microsecond))
  ELSE PyStr(_ymd(value) \o <<32>> \o _hms(value))

_datetime_to_mysql(value) ==
  IF value.microsecond # 0
  THEN PyStr(_ymd(value) \o <<32>> \o _hms(value) \o <<46>> \o FormatZD(value.microsecond, 6))
  ELSE PyStr(_ymd(value) \o <<32>> \o _hms(value))

_date_to_mysql(value) == PyStr(_ymd(value))

_time_to_mysql(value) ==
  IF value.microsecond # 0
  THEN PyStr(_hms(value) \o <<46>> \o FormatZD(value.microsecond, 6))
  ELSE PyStr(_hms(value))

\* _timedelta_to_mysql without the borrow of a second for negative durations
_timedelta_to_mysql_no_borrow(value) ==
  LET abs_seconds == IF value.days * 86400 + value.seconds < 0
                     THEN -(value.days * 86400 + value.seconds)
                     ELSE value.days * 86400 + value.seconds
      hours == abs_seconds \div 3600
      remainder == abs_seconds % 3600
      mins == remainder \div 60
      secs == remainder % 60
      sign == IF value.days < 0 THEN <<45>> ELSE <<>>
      hms == FormatZD(hours, 2) \o <<58>> \o FormatZD(mins, 2) \o <<58>> \o FormatZD(secs, 2)
  IN IF value.microseconds # 0
     THEN PyStr(sign \o hms \o <<46>> \o FormatZD(value.microseconds, 6))
     ELSE PyStr(sign \o hms)

_timedelta_to_mysql(value) ==
  LET abs_seconds == IF value.days * 86400 + value.seconds < 0
                     THEN -(value.days * 86400 + value.seconds)
                     ELSE value.days * 86400 + value.seconds
      borrow == value.microseconds # 0 /\ value.days < 0
      seconds == IF borrow THEN abs_seconds - 1 ELSE abs_seconds
      mcs == IF borrow THEN 1000000 - value.microseconds ELSE value.microseconds
      hours == seconds \div 3600
      remainder == seconds % 3600
      mins == remainder \div 60
      secs == remainder % 60
      sign == IF value.days < 0 THEN <<45>> ELSE <<>>
      hms == FormatZD(hours, 2) \o <<58>> \o FormatZD(mins, 2) \o <<58>> \o FormatZD(secs, 2)
  IN IF value.microseconds # 0
     THEN PyStr(sign \o hms \o <<46>> \o FormatZD(mcs, 6))
     ELSE PyStr(sign \o hms)

\* to_mysql dispatching on isinstance, so that a str subclass is a str
to_mysql_isinstance(value) ==
  CASE value.t = "int" -> value
    [] value.t \in {"str", "hexliteral"} -> PyStr(str(value))
    [] value.t = "unicode" -> _unicode_to_mysql(value)
    [] value.t = "bool" -> _bool_to_mysql(value)
    [] value.t = "nonetype" -> None
    [] value.t = "datetime" -> _datetime_to_mysql(value)
    [] value.t = "date" -> _date_to_mysql(value)
    [] value.t = "time" -> _time_to_mysql(value)
    [] value.t = "timedelta" -> _timedelta_to_mysql(value)
    [] OTHER -> Raise("TypeError")

to_mysql(value) ==
  CASE value.t = "int" -> value
    [] value.t = "str" -> value
    [] value.t = "unicode" -> _unicode_to_mysql(value)
    [] value.t = "bool" -> _bool_to_mysql(value)
    [] value.t = "nonetype" -> None
    [] value.t = "datetime" -> _datetime_to_mysql(value)
    [] value.t = "date" -> _date_to_mysql(value)
    [] value.t = "time" -> _time_to_mysql(value)
    [] value.t = "timedelta" -> _timedelta_to_mysql(value)
    [] OTHER -> Raise("TypeError")

(***************************************************************************)
(* Python built-ins used by the decoders                                   *)
(***************************************************************************)
\* str.split(sep) for a one-character sep
RECURSIVE split(_, _)
split(s, sep) ==
  IF \A i \in 1..Len(s) : s[i] # sep THEN <<s>>
  ELSE LET k == CHOOSE i \in 1..Len(s) : s[i] = sep /\ \A j \in 1..(i - 1) : s[j] # sep
       IN <<SubSeq(s, 1, k - 1)>> \o split(SubSeq(s, k + 1, Len(s)), sep)

\* str.ljust(6, '0')
ljust6(s) == IF Len(s) >= 6 THEN s ELSE s \o Zeros(6 - Len(s))

IsSpace(b) == b = 32 \/ (9 <= b /\ b <= 13)

RECURSIVE strip(_)
strip(s) ==
  IF s = <<>> THEN s
  ELSE IF IsSpace(Head(s)) THEN strip(Tail(s))
  ELSE IF IsSpace(s[Len(s)]) THEN strip(SubSeq(s, 1, Len(s) - 1))
  ELSE s

RECURSIVE DigitsValue(_)
DigitsValue(s) ==
  IF s = <<>> THEN 0 ELSE 10 * DigitsValue(SubSeq(s, 1, Len(s) - 1)) + (s[Len(s)] - 48)

IsDigits(s) == s # <<>> /\ \A i \in 1..Len(s) : 48 <= s[i] /\ s[i] <= 57

\* int(s): surrounding whitespace and one sign are accepted; ValueError otherwise
int(s) ==
  LET b == strip(s)
      signed == b # <<>> /\ Head(b) \in {43, 45}
      d == IF signed THEN Tail(b) ELSE b
  IN IF ~IsDigits(d) THEN Raise("ValueError")
     ELSE IF signed /\ Head(b) = 45 THEN PyInt(-DigitsValue(d))
     ELSE PyInt(DigitsValue(d))

\* [int(d) for d in parts]: the first failure, or the sequence of integers
IntList(parts) ==
  IF \E i \in 1..Len(parts) : IsRaise(int(parts[i])) THEN Raise("ValueError")
  ELSE [t |-> "list", items |-> [i \in 1..Len(parts) |-> int(parts[i]).n]]

IsLeap(y) == y % 4 = 0 /\ (y % 100 # 0 \/ y % 400 = 0)

DaysInMonth(y, m) ==
  IF m = 2 THEN (IF IsLeap(y) THEN 29 ELSE 28)
  ELSE IF m \in {4, 6, 9, 11} THEN 30 ELSE 31

ValidDate(y, m, d) ==
  1 <= y /\ y <= 9999 /\ 1 <= m /\ m <= 12 /\ 1 <= d /\ d <= DaysInMonth(y, m)

ValidTime(h, mi, s, us) ==
  0 <= h /\ h <= 23 /\ 0 <= mi /\ mi <= 59 /\ 0 <= s /\ s <= 59
    /\ 0 <= us /\ us <= 999999

\* datetime.date(year, month, day)
date(y, m, d) ==
  IF ValidDate(y, m, d) THEN [t |-> "date", year |-> y, month |-> m, day |-> d]
  ELSE Raise("ValueError")

\* datetime.datetime(*a): year, month, day[, hour[, minute[, second[,
\* microsecond[, tzinfo]]]]]
datetime(a) ==
  LET at(i) == IF i <= Len(a) THEN a[i] ELSE 0
  IN IF Len(a) < 3 \/ Len(a) > 8 THEN Raise("TypeError")
     ELSE IF ~ValidDate(a[1], a[2], a[3]) THEN Raise("ValueError")
     ELSE IF ~ValidTime(at(4), at(5), at(6), at(7)) THEN Raise("ValueError")
     ELSE IF Len(a) = 8 THEN Raise("TypeError")
     ELSE [t |-> "datetime", year |-> a[1], month |-> a[2], day |-> a[3],
           hour |-> at(4), minute |-> at(5), second |-> at(6), microsecond |-> at(7)]

\* datetime.timedelta(hours=, minutes=, seconds=, microseconds=), normalized
timedelta(hours, minutes, seconds, microseconds) ==
  LET total == hours * 3600 + minutes * 60 + seconds + (microseconds \div 1000000)
  IN [t |-> "timedelta", days |-> total \div 86400, seconds |-> total % 86400,
      microseconds |-> microseconds % 1000000]

\* struct.unpack('>Q', b)[0] for an 8-byte b
RECURSIVE BigEndian(_)
BigEndian(b) ==
  IF b = <<>> THEN 0 ELSE 256 * BigEndian(SubSeq(b, 1, Len(b) - 1)) + b[Len(b)]

\* unicode(value, charset): one character off the front of b as
\* <<code point, bytes consumed>>, <<>> when b does not start with one
DecodeChar(cs, b) ==
  LET cont(i) == i <= Len(b) /\ 128 <= b[i] /\ b[i] <= 191
  IN IF cs = "latin1" \/ b[1] < 128 THEN <<b[1], 1>>
     ELSE IF cs = "utf8" THEN
       IF 194 <= b[1] /\ b[1] <= 223 /\ cont(2)
       THEN <<(b[1] - 192) * 64 + (b[2] - 128), 2>>
       ELSE IF b[1] = 232 /\ cont(2) /\ cont(3)
       THEN <<(8 * 64 + (b[2] - 128)) * 64 + (b[3] - 128), 3>>
       ELSE <<>>
     ELSE IF 161 <= b[1] /\ b[1] <= 223 THEN <<65216 + b[1], 1>>
     ELSE IF b[1] = 149 /\ Len(b) >= 2 /\ b[2] = BACKSLASH THEN <<34920, 2>>
     ELSE <<>>

RECURSIVE Decode(_, _)
Decode(cs, b) ==
  IF cs \notin KnownCharsets THEN Raise("LookupError")
  ELSE IF b = <<>> THEN [t |-> "unicode", s |-> <<>>]
  ELSE LET c == DecodeChar(cs, b)
           rest == Decode(cs, SubSeq(b, c[2] + 1, Len(b)))
       IN IF c = <<>> THEN Raise("UnicodeDecodeError")
          ELSE IF IsRaise(rest) THEN rest
          ELSE [t |-> "unicode", s |-> <<c[1]>> \o rest.s]

(***************************************************************************)
(* Field descriptors: mysql.connector.constants.FieldType / FieldFlag.     *)
(* A descriptor is [name, type, flags] (flddsc[0], flddsc[1], flddsc[7]).  *)
(***************************************************************************)
FieldType ==
  [TINY |-> 1, LONG |-> 3, NULL |-> 6, TIMESTAMP |-> 7, DATE |-> 10, TIME |-> 11,
   DATETIME |-> 12, YEAR |-> 13, NEWDATE |-> 14, BIT |-> 16, BLOB |-> 252,
   VAR_STRING |-> 253, STRING |-> 254, GEOMETRY |-> 255]

FieldFlagBINARY == 128
FieldFlagSET == 2048

HasFlag(flags, bit) == (flags \div bit) % 2 = 1

\* the type codes of FieldType.desc for which a _NAME_to_python method exists
Registered ==
  {FieldType.TINY, FieldType.LONG, FieldType.TIMESTAMP, FieldType.DATE,
   FieldType.TIME, FieldType.DATETIME, FieldType.YEAR, FieldType.NEWDATE,
   FieldType.BIT, FieldType.BLOB, FieldType.VAR_STRING, FieldType.STRING}

(***************************************************************************)
(* The decoders                                                            *)
(***************************************************************************)
_INT_to_python(value, desc) == int(value.s)

_BIT_to_python(value, dsc) ==
  LET int_val == IF Len(value.s) < 8 THEN [i \in 1..(8 - Len(value.s)) |-> 0] \o value.s
                 ELSE value.s
  IN IF Len(int_val) # 8 THEN Raise("struct.error") ELSE PyInt(BigEndian(int_val))

_DATE_to_python(value, dsc) ==
  LET parts == split(value.s, 45)
      p(i) == int(parts[i])
  IN IF IsRaise(p(1)) THEN None
     ELSE IF Len(parts) < 2 THEN Raise("IndexError")
     ELSE IF IsRaise(p(2)) THEN None
     ELSE IF Len(parts) < 3 THEN Raise("IndexError")
     ELSE IF IsRaise(p(3)) THEN None
     ELSE IF IsRaise(date(p(1).n, p(2).n, p(3).n)) THEN None
     ELSE date(p(1).n, p(2).n, p(3).n)

\* _TIME_to_python negating minutes and seconds but not the microseconds
_TIME_to_python_mcs_unsigned(value, dsc) ==
  LET dot == split(value.s, 46)
      frac == IF Len(dot) = 2 THEN int(ljust6(dot[2])) ELSE Raise("ValueError")
      hms == IF IsRaise(frac) THEN value.s ELSE dot[1]
      mcs == IF IsRaise(frac) THEN 0 ELSE frac.n
      parts == split(hms, 58)
      nums == IntList(parts)
      neg == value.s[1] = 45
  IN IF IsRaise(nums) \/ Len(parts) # 3 THEN Raise("ValueError")
     ELSE IF neg THEN timedelta(nums.items[1], -nums.items[2], -nums.items[3], mcs)
     ELSE timedelta(nums.items[1], nums.items[2], nums.items[3], mcs)

_TIME_to_python(value, dsc) ==
  LET dot == split(value.s, 46)
      frac == IF Len(dot) = 2 THEN int(ljust6(dot[2])) ELSE Raise("ValueError")
      hms == IF IsRaise(frac) THEN value.s ELSE dot[1]
      mcs == IF IsRaise(frac) THEN 0 ELSE frac.n
      parts == split(hms, 58)
      nums == IntList(parts)
      neg == value.s[1] = 45
  IN IF IsRaise(nums) \/ Len(parts) # 3 THEN Raise("ValueError")
     ELSE IF neg THEN timedelta(nums.items[1], -nums.items[2], -nums.items[3], -mcs)
     ELSE timedelta(nums.items[1], nums.items[2], nums.items[3], mcs)

_DATETIME_to_python(value, dsc) ==
  LET sp == split(value.s, 32)
      date_ == sp[1]
      time_ == sp[2]
      long == Len(time_) > 8
      dot == split(time_, 46)
      frac == IF ~long THEN PyInt(0)
              ELSE IF Len(dot) # 2 THEN Raise("ValueError")
              ELSE int(ljust6(dot[2]))
      hms == IF long THEN dot[1] ELSE time_
      dnums == IntList(split(date_, 45))
      tnums == IntList(split(hms, 58))
      made == datetime(dnums.items \o tnums.items \o <<frac.n>>)
  IN IF Len(sp) # 2 THEN None
     ELSE IF IsRaise(frac) \/ IsRaise(dnums) \/ IsRaise(tnums) THEN None
     ELSE IF IsRaise(made) /\ made.exc = "ValueError" THEN None
     ELSE made

_YEAR_to_python(value, desc) == int(value.s)

_SET_to_python(value, dsc) ==
  LET parts == split(value.s, 44)
  IN [t |-> "set", items |-> {parts[i] : i \in 1..Len(parts)}]

_STRING_to_python(value, dsc) ==
  IF HasFlag(dsc.flags, FieldFlagSET) THEN _SET_to_python(value, dsc)
  ELSE IF HasFlag(dsc.flags, FieldFlagBINARY) THEN value
  ELSE IF use_unicode THEN Decode(charset, value.s)
  ELSE value

_BLOB_to_python(value, dsc) ==
  IF HasFlag(dsc.flags, FieldFlagBINARY) THEN value ELSE _STRING_to_python(value, dsc)

\* self._cache_field_types[flddsc[1]](value, flddsc)
Decoder(code, value, flddsc) ==
  CASE code \in {FieldType.TINY, FieldType.LONG} -> _INT_to_python(value, flddsc)
    [] code = FieldType.BIT -> _BIT_to_python(value, flddsc)
    [] code \in {FieldType.DATE, FieldType.NEWDATE} -> _DATE_to_python(value, flddsc)
    [] code = FieldType.TIME -> _TIME_to_python(value, flddsc)
    [] code \in {FieldType.DATETIME, FieldType.TIMESTAMP} -> _DATETIME_to_python(value, flddsc)
    [] code = FieldType.YEAR -> _YEAR_to_python(value, flddsc)
    [] code \in {FieldType.STRING, FieldType.VAR_STRING} -> _STRING_to_python(value, flddsc)
    [] code = FieldType.BLOB -> _BLOB_to_python(value, flddsc)

\* the exception classes an "except ValueError" clause catches
ValueErrors == {"ValueError", "UnicodeDecodeError", "UnicodeEncodeError"}

\* to_python once the decoder table types is built
to_python(types, flddsc, value) ==
  IF value.t = "nonetype" THEN None
  ELSE IF value.s = <<0>> /\ flddsc.type # FieldType.BIT THEN None
  ELSE IF flddsc.type \notin types THEN value
  ELSE LET r == Decoder(flddsc.type, value, flddsc)
       IN IF ~IsRaise(r) THEN r
          ELSE IF r.exc \in ValueErrors
            THEN [t |-> "raise", exc |-> "ValueError", col |-> flddsc.name]
          ELSE IF r.exc = "TypeError"
            THEN [t |-> "raise", exc |-> "TypeError", col |-> flddsc.name]
          ELSE r

(***************************************************************************)
(* Inputs of the model                                                     *)
(***************************************************************************)
SeqsOf(S, lo, hi) == UNION {[1..n -> S] : n \in lo..hi}

RECURSIVE Join(_, _)
Join(parts, sep) ==
  IF Len(parts) = 1 THEN parts[1] ELSE parts[1] \o <<sep>> \o Join(Tail(parts), sep)

\* texts handed to escape: the six special characters and the letter n
EscAlphabet ==
  {BACKSLASH, NEWLINE, CARRIAGE_RETURN, SINGLE_QUOTE, DOUBLE_QUOTE, CTRL_Z, 110}

Texts == {PyStr(s) : s \in SeqsOf(EscAlphabet, 0, MaxLen)}

UnicodeTexts ==
  {[t |-> "unicode", s |-> s] : s \in SeqsOf({97, NEWLINE, BACKSLASH, 233, 34920}, 0, 2)}

\* Hex-Literals the application builds itself
HexLiterals ==
  {HexLiteral(u.s, cs) : u \in {v \in UnicodeTexts : Len(v.s) = 2}, cs \in {"utf8", "sjis"}}
    \ {Raise("UnicodeEncodeError")}

Scalars ==
  {None, PyInt(-1), PyInt(0), PyInt(42), [t |-> "bool", b |-> TRUE],
   [t |-> "bool", b |-> FALSE], [t |-> "list"]}

Dates ==
  {[t |-> "date", year |-> y, month |-> m, day |-> d] :
     <<y, m, d>> \in {x \in {1, 999, 2014, 2016, 9999} \X {1, 2, 12} \X {1, 28, 29, 31} :
                        ValidDate(x[1], x[2], x[3])}}

Times ==
  {[t |-> "time", hour |-> x[1], minute |-> x[2], second |-> x[3], microsecond |-> x[4]] :
     x \in {0, 12, 23} \X {0, 59} \X {0, 59} \X {0, 1, 500000}}

DateTimes ==
  {[t |-> "datetime", year |-> x[1], month |-> x[2], day |-> x[3], hour |-> x[4],
    minute |-> x[5], second |-> x[6], microsecond |-> x[7]] :
     x \in {999, 2014} \X {2, 12} \X {28} \X {0, 23} \X {0, 59} \X {59} \X {0, 1, 500000}}

\* normalized durations
TimeDeltas ==
  {[t |-> "timedelta", days |-> x[1], seconds |-> x[2], microseconds |-> x[3]] :
     x \in ((-MaxDays)..MaxDays) \X {0, 1, 59, 60, 3599, 3600, 86398, 86399}
             \X {0, 1, 500000, 999999}}

Values ==
  Texts \cup UnicodeTexts \cup HexLiterals \cup Scalars \cup Dates \cup Times
    \cup DateTimes \cup TimeDeltas

CharsetArgs == UsedCharsets \cup {"utf8mb4", "None", "klingon"}

ColumnName == "c1"

Field(type, flags) == [name |-> ColumnName, type |-> type, flags |-> flags]

\* raw column texts, per column type: the well-formed ones and their
\* malformed neighbours
DateRaws ==
  {PyStr(Join(ps, 45)) :
     ps \in SeqsOf({Str(<<"2", "0", "1", "4">>), Str(<<"0", "2">>), Str(<<"3", "0">>),
                    Str(<<"a", "b">>)}, 1, MaxParts)}

Fractions == {<<>>, Str(<<".", "5">>), Str(<<".", "0", "0", "0", "0", "0", "1">>), Str(<<".", "x">>)}

TimeRaws ==
  {PyStr(Join(ps, 58) \o f) :
     ps \in SeqsOf({Str(<<"1", "0">>), Str(<<"a", "b">>), Str(<<"-", "0", "0">>)}, 1, MaxParts),
     f \in Fractions}
    \cup {PyStr(<<>>)}

DateTimeRaws ==
  {PyStr(Join(d, 45) \o sp \o Join(h, 58) \o f) :
     d \in SeqsOf({Str(<<"0", "2">>)}, 2, 4)
             \cup {<<Str(<<"2", "0", "1", "4">>), Str(<<"0", "2">>), Str(<<"0", "2">>)>>,
                   <<Str(<<"2", "0", "1", "4">>), Str(<<"0", "2">>), Str(<<"3", "0">>)>>,
                   <<Str(<<"a", "b">>), Str(<<"0", "2">>), Str(<<"0", "2">>)>>},
     sp \in {<<32>>, <<>>, <<32, 32>>},
     h \in SeqsOf({Str(<<"1", "0">>)}, 2, 4)
             \cup {<<Str(<<"1", "0">>), Str(<<"6", "1">>), Str(<<"1", "0">>)>>,
                   <<Str(<<"a", "b">>), Str(<<"1", "0">>), Str(<<"1", "0">>)>>},
     f \in Fractions}

YearRaws ==
  {PyStr(Str(<<"2", "0", "1", "4">>)), PyStr(Str(<<"a", "b", "c", "d">>)), PyStr(<<>>),
   PyStr(Str(<<" ", "1", "4">>))}

BitRaws ==
  {PyStr(s) : s \in SeqsOf({0, 1, 255}, 0, 2)
                      \cup {<<0, 0, 0, 0, 0, 0, 1, 0>>, <<0, 0, 0, 0, 0, 0, 0, 0, 1>>}}

\* byte strings whose decoding DecodeChar covers
StringRaws ==
  {PyStr(s) : s \in SeqsOf({97, 44, BACKSLASH, 255}, 0, 2)
                      \cup {<<149, BACKSLASH>>, <<149>>, <<195, 169>>, <<233>>,
                            <<232, 161, 168>>}}

CommonRaws == {None, PyStr(<<0>>), PyStr(Str(<<"1", "4">>))}

\* the descriptors and raw values the server sends together
Rows ==
  ({Field(FieldType.DATE, 0)} \X (DateRaws \cup CommonRaws))
  \cup ({Field(FieldType.NEWDATE, 0)} \X ({r \in DateRaws : Len(r.s) <= 10} \cup CommonRaws))
  \cup ({Field(FieldType.DATETIME, 0)} \X (DateTimeRaws \cup CommonRaws))
  \cup ({Field(FieldType.TIMESTAMP, 0)}
          \X ({r \in DateTimeRaws : Len(r.s) <= 19} \cup CommonRaws))
  \cup ({Field(FieldType.TIME, 0)} \X (TimeRaws \cup CommonRaws))
  \cup ({Field(FieldType.YEAR, 0), Field(FieldType.TINY, 0), Field(FieldType.LONG, 0),
         Field(FieldType.GEOMETRY, 0), Field(FieldType.NULL, 0)}
          \X (YearRaws \cup CommonRaws))
  \cup ({Field(FieldType.BIT, 0)} \X (BitRaws \cup CommonRaws))
  \cup (({Field(FieldType.STRING, f) : f \in {0, FieldFlagBINARY, FieldFlagSET}}
           \cup {Field(FieldType.VAR_STRING, 0), Field(FieldType.BLOB, 0),
                 Field(FieldType.BLOB, FieldFlagBINARY)})
          \X (StringRaws \cup CommonRaws))

\* the descriptors of the columns a value of each variant is stored in
Columns(value) ==
  CASE value.t = "date" -> {Field(FieldType.DATE, 0)}
    [] value.t = "time" -> {Field(FieldType.TIME, 0)}
    [] value.t = "datetime" -> {Field(FieldType.DATETIME, 0), Field(FieldType.TIMESTAMP, 0)}
    [] value.t = "timedelta" -> {Field(FieldType.TIME, 0)}
    [] OTHER -> {}

(***************************************************************************)
(* The converter object and its caller                                     *)
(***************************************************************************)
NoField == Field(FieldType.NULL, 0)

NoCall == [t |-> "nocall"]

NoOp == "-"

\* MySQLConverter(charset, use_unicode): __init__ ends in set_charset and
\* set_unicode; a constructor that raises builds no object
Init ==
  /\ \E c \in CharsetArgs \ {"klingon"} :
       /\ charset = (IF c \in {"utf8mb4", "None"} THEN "utf8" ELSE c)
       /\ charset_id = get_charset_info(charset).n
  /\ use_unicode \in BOOLEAN
  /\ cache = {}
  /\ pc = "idle"
  /\ op = NoOp
  /\ src = NoCall
  /\ arg = NoCall
  /\ fld = NoField
  /\ res = None

set_charset(c) ==
  LET name == IF c = "utf8mb4" THEN "utf8" ELSE IF c # "None" THEN c ELSE "utf8"
      info == get_charset_info(name)
  IN /\ pc = "idle"
     /\ charset' = name
     /\ charset_id' = (IF IsRaise(info) THEN charset_id ELSE info.n)
     /\ res' = (IF IsRaise(info) THEN info ELSE None)
     /\ pc' = "configured"
     /\ op' = "set_charset"
     /\ arg' = [t |-> "charset", name |-> c]
     /\ src' = arg'
     /\ UNCHANGED <<use_unicode, cache, fld>>

set_unicode(value) ==
  /\ pc = "idle"
  /\ use_unicode' = value
  /\ res' = None
  /\ pc' = "configured"
  /\ op' = "set_unicode"
  /\ arg' = [t |-> "bool", b |-> value]
  /\ src' = arg'
  /\ UNCHANGED <<charset, charset_id, cache, fld>>

\* to_mysql on an application value
ToMysql(value) ==
  /\ pc = "idle"
  /\ op' = "to_mysql"
  /\ src' = value
  /\ arg' = value
  /\ res' = to_mysql(value)
  /\ pc' = "encoded"
  /\ UNCHANGED <<charset, charset_id, use_unicode, cache, fld>>

\* to_mysql on what an earlier to_mysql call returned
ToMysqlAgain ==
  /\ pc = "encoded" /\ op = "to_mysql" /\ ~IsRaise(res) /\ arg # res
  /\ op' = "to_mysql"
  /\ arg' = res
  /\ res' = to_mysql(res)
  /\ pc' = "encoded"
  /\ UNCHANGED <<charset, charset_id, use_unicode, cache, fld, src>>

\* escape on the encoded value
Escape ==
  /\ pc = "encoded" /\ ~IsRaise(res)
  /\ op' = "escape"
  /\ arg' = res
  /\ res' = escape(res)
  /\ pc' = "escaped"
  /\ UNCHANGED <<charset, charset_id, use_unicode, cache, fld, src>>

\* quote on the escaped value
Quote ==
  /\ pc = "escaped" /\ ~IsRaise(res)
  /\ op' = "quote"
  /\ arg' = res
  /\ res' = quote(res)
  /\ pc' = "quoted"
  /\ UNCHANGED <<charset, charset_id, use_unicode, cache, fld, src>>

\* to_python on a column of a result row
ToPython(flddsc, value) ==
  /\ pc = "idle"
  /\ cache' = (IF value.t = "nonetype" \/ (value.s = <<0>> /\ flddsc.type # FieldType.BIT)
                  \/ cache # {}
               THEN cache ELSE Registered)
  /\ op' = "to_python"
  /\ src' = value
  /\ arg' = value
  /\ fld' = flddsc
  /\ res' = to_python(cache', flddsc, value)
  /\ pc' = "decoded"
  /\ UNCHANGED <<charset, charset_id, use_unicode>>

\* to_python on the text to_mysql produced, read back from a column
ReadBack(flddsc) ==
  /\ pc = "encoded" /\ op = "to_mysql" /\ res.t = "str" /\ arg = src
  /\ flddsc \in Columns(src)
  /\ cache' = (IF cache # {} THEN cache ELSE Registered)
  /\ op' = "to_python"
  /\ arg' = res
  /\ fld' = flddsc
  /\ res' = to_python(cache', flddsc, res)
  /\ pc' = "decoded"
  /\ UNCHANGED <<charset, charset_id, use_unicode, src>>

\* the caller takes the result; the converter is ready for the next call
Return ==
  /\ pc \in {"configured", "encoded", "escaped", "quoted", "decoded"}
  /\ pc' = "idle"
  /\ op' = NoOp
  /\ src' = NoCall
  /\ arg' = NoCall
  /\ fld' = NoField
  /\ res' = None
  /\ UNCHANGED <<charset, charset_id, use_unicode, cache>>

Next ==
  \/ \E c \in CharsetArgs : set_charset(c)
  \/ \E b \in BOOLEAN : set_unicode(b)
  \/ \E v \in Values : ToMysql(v)
  \/ ToMysqlAgain
  \/ Escape
  \/ Quote
  \/ \E row \in Rows : ToPython(row[1], row[2])
  \/ \E f \in Columns(src) : ReadBack(f)
  \/ Return

Spec == Init /\ [][Next]_vars

(***************************************************************************)
(* Properties                                                              *)
(***************************************************************************)
Specials ==
  {BACKSLASH, NEWLINE, CARRIAGE_RETURN, SINGLE_QUOTE, DOUBLE_QUOTE, CTRL_Z}

\* s read left to right, a backslash consuming the character after it:
\* every backslash has one, and no special character stands outside a pair
RECURSIVE FullyEscaped(_)
FullyEscaped(s) ==
  IF s = <<>> THEN TRUE
  ELSE IF Head(s) = BACKSLASH THEN Len(s) >= 2 /\ FullyEscaped(SubSeq(s, 3, Len(s)))
  ELSE Head(s) \notin Specials /\ FullyEscaped(Tail(s))

\* C1: escape(s) of a text s has no unescaped backslash, quote, newline,
\* carriage return or 0x1A, and quote(escape(s)) is that text between two
\* single quotes, with no other unescaped single quote.
C1_EscapedTextIsSafe ==
  /\ (op = "escape" /\ arg.t = "str") => FullyEscaped(res.s)
  /\ (op = "quote" /\ arg.t = "str") =>
       /\ Len(res.s) >= 2
       /\ res.s[1] = SINGLE_QUOTE
       /\ res.s[Len(res.s)] = SINGLE_QUOTE
       /\ FullyEscaped(SubSeq(res.s, 2, Len(res.s) - 1))

C1_Witness ==
  /\ op = "quote"
  /\ src = PyStr(<<SINGLE_QUOTE, BACKSLASH>>)
  /\ res.s = <<SINGLE_QUOTE, BACKSLASH, SINGLE_QUOTE, BACKSLASH, BACKSLASH, SINGLE_QUOTE>>

\* the substitution of one character, 0x1A becoming backslash + z
EscapeChar(c, z) ==
  CASE c = BACKSLASH -> <<BACKSLASH, BACKSLASH>>
    [] c = NEWLINE -> <<BACKSLASH, 110>>
    [] c = CARRIAGE_RETURN -> <<BACKSLASH, 114>>
    [] c = SINGLE_QUOTE -> <<BACKSLASH, SINGLE_QUOTE>>
    [] c = DOUBLE_QUOTE -> <<BACKSLASH, DOUBLE_QUOTE>>
    [] c = CTRL_Z -> <<BACKSLASH, z>>
    [] OTHER -> <<c>>

RECURSIVE SinglePass(_, _)
SinglePass(s, z) ==
  IF s = <<>> THEN <<>> ELSE EscapeChar(Head(s), z) \o SinglePass(Tail(s), z)

\* C2: escape of a text is the single-pass, character-by-character
\* substitution in which 0x1A becomes backslash + letter Z (90) and the
\* other five characters their backslash forms.
C2_EscapeIsSinglePassWithZ ==
  (op = "escape" /\ arg.t = "str") => res.s = SinglePass(arg.s, 90)

TimeDelta(d, s, us) == [t |-> "timedelta", days |-> d, seconds |-> s, microseconds |-> us]

\* C3 as stated: -1 second encodes as -00:00:01 and the duration days=-1,
\* seconds=86399, microseconds=500000 as -23:59:59.500000.
C3_DurationTextsAsStated ==
  /\ (op = "to_mysql" /\ arg = TimeDelta(-1, 86399, 0)) =>
       res.s = Str(<<"-", "0", "0", ":", "0", "0", ":", "0", "1">>)
  /\ (op = "to_mysql" /\ arg = TimeDelta(-1, 86399, 500000)) =>
       res.s = Str(<<"-", "2", "3", ":", "5", "9", ":", "5", "9", ".",
                     "5", "0", "0", "0", "0", "0">>)

\* C3 amended: -1 second encodes as -00:00:01 and the duration days=-1,
\* seconds=86399, microseconds=500000 (minus half a second) as
\* -00:00:00.500000.
C3_DurationTexts ==
  /\ (op = "to_mysql" /\ arg = TimeDelta(-1, 86399, 0)) =>
       res.s = Str(<<"-", "0", "0", ":", "0", "0", ":", "0", "1">>)
  /\ (op = "to_mysql" /\ arg = TimeDelta(-1, 86399, 500000)) =>
       res.s = Str(<<"-", "0", "0", ":", "0", "0", ":", "0", "0", ".",
                     "5", "0", "0", "0", "0", "0">>)

C3_Witness ==
  op = "to_mysql" /\ arg = TimeDelta(-1, 86399, 500000) /\ res.t = "str"

\* a value read back from the column it was written to
ReadBackOf(variants) == op = "to_python" /\ src.t \in variants

\* C4 as stated: a date, time-of-day or date-time value encoded by to_mysql
\* and decoded by to_python under its column type comes back equal.
C4_RoundTripAsStated ==
  ReadBackOf({"date", "time", "datetime"}) => res = src

\* C4 amended: a date or date-time value encoded by to_mysql and decoded by
\* to_python under its column type comes back equal; a time-of-day value
\* comes back from a TIME column as the duration since midnight with the
\* same hours, minutes, seconds and microseconds, not as a time of day.
C4_RoundTrip ==
  /\ ReadBackOf({"date", "datetime"}) => res = src
  /\ ReadBackOf({"time"}) =>
       res = TimeDelta(0, src.hour * 3600 + src.minute * 60 + src.second, src.microsecond)

C4_Witness ==
  /\ ReadBackOf({"datetime"})
  /\ src.microsecond = 1
  /\ fld.type = FieldType.TIMESTAMP
  /\ res = src

\* C5 as stated: to_mysql of a Hex-Literal returns it unchanged.
C5_HexLiteralIdempotentAsStated ==
  (op = "to_mysql" /\ arg.t = "hexliteral") => res = arg

\* C5 amended: to_mysql of a Hex-Literal fails with the unsupported-type
\* error (TypeError), Hex-Literal having no encoder; it is escape that
\* returns a Hex-Literal unchanged.
C5_HexLiteralBypass ==
  /\ (op = "to_mysql" /\ arg.t = "hexliteral") => res = Raise("TypeError")
  /\ (op = "escape" /\ arg.t = "hexliteral") => res = arg

C5_Witness ==
  op = "to_mysql" /\ arg.t = "hexliteral" /\ src.t = "unicode" /\ IsRaise(res)

\* the bytes two hex digits at a time stand for
HexValue(c) == IF c >= 97 THEN c - 87 ELSE c - 48

RECURSIVE Unhex(_)
Unhex(d) ==
  IF Len(d) < 2 THEN <<>>
  ELSE <<16 * HexValue(d[1]) + HexValue(d[2])>> \o Unhex(SubSeq(d, 3, Len(d)))

IsHexOf(h) ==
  LET bytes == Encode(h.charset, h.original).s
  IN /\ Len(h.s) = 2 * Len(bytes)
     /\ Unhex(h.s) = bytes
     /\ str(h) = <<48, 120>> \o h.s

\* C6: the digits of a Hex-Literal are two lowercase hex digits per byte of
\* the string under its charset, in byte order, and it renders as 0x + digits.
C6_HexDigitsTwoPerByte ==
  /\ (op = "to_mysql" /\ res.t = "hexliteral") => IsHexOf(res)
  /\ (op = "to_mysql" /\ src.t = "hexliteral") => IsHexOf(src)

SilentNullTypes ==
  {FieldType.DATE, FieldType.NEWDATE, FieldType.DATETIME, FieldType.TIMESTAMP}

WellFormedDate(s) ==
  LET ps == split(s, 45)
  IN /\ Len(ps) = 3
     /\ \A i \in 1..3 : IsDigits(ps[i])
     /\ ValidDate(DigitsValue(ps[1]), DigitsValue(ps[2]), DigitsValue(ps[3]))

WellFormedClock(s) ==
  LET dot == split(s, 46)
      ps == split(dot[1], 58)
  IN /\ Len(dot) <= 2
     /\ Len(dot) = 2 => (IsDigits(dot[2]) /\ Len(dot[2]) <= 6)
     /\ Len(ps) = 3
     /\ \A i \in 1..3 : IsDigits(ps[i])
     /\ ValidTime(DigitsValue(ps[1]), DigitsValue(ps[2]), DigitsValue(ps[3]), 0)

WellFormedDateTime(s) ==
  LET sp == split(s, 32)
  IN Len(sp) = 2 /\ WellFormedDate(sp[1]) /\ WellFormedClock(sp[2])

\* C7: for a DATE, NEWDATE, DATETIME or TIMESTAMP column, to_python of a raw
\* text that is not a well-formed valid value of the column's format is null:
\* no exception, no date, no date-time.
C7_MalformedDatesAreNull ==
  /\ (op = "to_python" /\ fld.type \in {FieldType.DATE, FieldType.NEWDATE}
        /\ arg.t = "str" /\ ~WellFormedDate(arg.s)) => res = None
  /\ (op = "to_python" /\ fld.type \in {FieldType.DATETIME, FieldType.TIMESTAMP}
        /\ arg.t = "str" /\ ~WellFormedDateTime(arg.s)) => res = None

\* C8: a failure leaving to_python after a registered decoder was selected
\* (TIME, YEAR, BIT, integer and string columns; the date columns' policy
\* is C7) is a ValueError (ConversionError) or TypeError
\* (ConversionTypeError) whose message carries the column name.
C8_DecoderFailuresNameColumn ==
  (op = "to_python" /\ IsRaise(res) /\ fld.type \in Registered \ SilentNullTypes) =>
    (res.exc \in {"ValueError", "TypeError"} /\ res.col = fld.name)

\* C9: after any sequence of set_charset and set_unicode calls, failed ones
\* included, the stored charset is a name the charset table knows and
\* charset_id is the id the table gives for it.
C9_CharsetIdMatchesName ==
  /\ charset \in KnownCharsets
  /\ charset_id = get_charset_info(charset).n

\* C10: to_python under a TIME column of to_mysql(d) is d, for every
\* normalized duration d.
C10_DurationRoundTrip ==
  ReadBackOf({"timedelta"}) => res = src

C10_Witness ==
  /\ ReadBackOf({"timedelta"})
  /\ src = TimeDelta(-MaxDays, 86399, 999999)
  /\ res = src

====
